---- MODULE Spec2Model ----
(***************************************************************************)
(* Model of the task-tracker todo store (lib/store.js), its query cache,   *)
(* the HTTP route handlers that call it, and the page and form components  *)
(* that send the requests.                                                 *)
(*                                                                         *)
(* Strings are sequences of one-character strings, so that trim,           *)
(* toLowerCase and includes are computed and not assumed.  A JavaScript    *)
(* object argument is a function whose domain is the set of properties it  *)
(* has; a missing property is `undefined`.                                 *)
(***************************************************************************)
EXTENDS Integers, Sequences, FiniteSets, TLC

VARIABLES
    todos,        \* lib/store.js `todos`: the ordered collection of records
    idCounter,    \* lib/store.js `idCounter`
    queryCache,   \* lib/store.js `queryCache`: a Map, kept in insertion order
    ret,          \* what the last call returned (or that it threw)
    held,         \* cache key whose stored array IS the array the caller got
    issued,       \* history: ids createTodo has handed out since start
    sinceClear,   \* history: ids createTodo has handed out since clearAllTodos
    resp,         \* the response of the last HTTP request
    page,         \* app/page.js: its state and the requests it has in flight
    form          \* CreateTodoForm: its state and the requests it has in flight

vars == <<todos, idCounter, queryCache, ret, held, issued, sinceClear, resp,
          page, form>>

store == <<todos, idCounter, queryCache>>

----------------------------------------------------------------------------
(* Bounds of the model *)

MaxId == 2         \* records are created while idCounter <= MaxId
MaxRecords == 3    \* the same, where deletions must leave several records
MaxCached == 1     \* queries for a new key are explored while the cache holds fewer
MaxInFlight == 2   \* list requests, and POSTs, the browser has in flight at a time
MaxMutations == 1  \* PATCH and DELETE requests the page has in flight at a time

(* Program constants *)

CACHE_SIZE_LIMIT == 50
MAX_TITLE_LENGTH == 200
MAX_DESCRIPTION_LENGTH == 1000
MAX_QUERY_LENGTH == 100

----------------------------------------------------------------------------
(* Strings *)

Whitespace == {" "}

ToLowerChar(c) == IF c = "A" THEN "a" ELSE IF c = "B" THEN "b" ELSE c

\* String.prototype.toLowerCase
ToLowerCase(s) == [i \in 1..Len(s) |-> ToLowerChar(s[i])]

RECURSIVE TrimStart(_)
TrimStart(s) ==
    IF s # <<>> /\ Head(s) \in Whitespace THEN TrimStart(Tail(s)) ELSE s

RECURSIVE TrimEnd(_)
TrimEnd(s) ==
    IF s # <<>> /\ s[Len(s)] \in Whitespace
    THEN TrimEnd(SubSeq(s, 1, Len(s) - 1))
    ELSE s

\* String.prototype.trim
Trim(s) == TrimEnd(TrimStart(s))

\* String.prototype.includes
Includes(s, sub) ==
    \E i \in 1..(Len(s) + 1) :
        /\ i + Len(sub) - 1 <= Len(s)
        /\ SubSeq(s, i, i + Len(sub) - 1) = sub

\* Number(id) for the id arguments the callers pass: a number is itself, a
\* string of decimal digits is its value, the empty string is 0 and any other
\* string is NaN (which equals no id)
NaN == -1

DigitValue(c) ==
    CASE c = "0" -> 0 [] c = "1" -> 1 [] c = "2" -> 2 [] c = "3" -> 3
      [] c = "4" -> 4 [] c = "5" -> 5 [] c = "6" -> 6 [] c = "7" -> 7
      [] c = "8" -> 8 [] c = "9" -> 9 [] OTHER -> NaN

RECURSIVE DigitsValue(_, _)
DigitsValue(s, acc) ==
    IF s = <<>> THEN acc
    ELSE IF DigitValue(Head(s)) = NaN THEN NaN
    ELSE DigitsValue(Tail(s), 10 * acc + DigitValue(Head(s)))

Number(id) ==
    IF "num" \in DOMAIN id THEN id.num ELSE DigitsValue(Trim(id.str), 0)

----------------------------------------------------------------------------
(* Return values *)

NoKey == <<>>

Returned(op, key, val) == [op |-> op, status |-> "ok", key |-> key, val |-> val]
ReturnedNull(op) == [op |-> op, status |-> "null", key |-> NoKey, val |-> <<>>]
Threw(op) == [op |-> op, status |-> "throw", key |-> NoKey, val |-> <<>>]

----------------------------------------------------------------------------
(* Query cache *)

\* queryCache.clear()
clearCache == <<>>

\* JSON.stringify({ status, q })
getCacheKey(filters) ==
    <<"{\"status\":\"", filters.status, "\",\"q\":\"">> \o filters.q \o <<"\"}">>

\* queryCache.has(cacheKey)
CacheHas(cache, k) == \E i \in 1..Len(cache) : cache[i].key = k

\* queryCache.get(cacheKey)
CacheGet(cache, k) ==
    cache[CHOOSE i \in 1..Len(cache) : cache[i].key = k].val

\* faulty variant of CacheSetWithLimit: evicts only when the size is over the
\* limit (> instead of >=)
CacheSetWithLimit_offByOne(cache, k, v) ==
    (IF Len(cache) > CACHE_SIZE_LIMIT THEN Tail(cache) ELSE cache)
        \o <<[key |-> k, val |-> v]>>

\* queryCache.set(cacheKey, value) for a key the map does not hold, after the
\* eviction of the first key when the map is at its size limit
CacheSetWithLimit(cache, k, v) ==
    (IF Len(cache) >= CACHE_SIZE_LIMIT THEN Tail(cache) ELSE cache)
        \o <<[key |-> k, val |-> v]>>

\* the defaults of the destructured parameter { status = "all", q = "" } = {}
WithDefaults(filters) ==
    [status |-> IF "status" \in DOMAIN filters THEN filters.status ELSE "all",
     q      |-> IF "q" \in DOMAIN filters THEN filters.q ELSE <<>>]

\* the status filter of getTodos
StatusFilter(list, status) ==
    IF status # "all"
    THEN SelectSeq(list, LAMBDA todo : todo.completed = (status = "completed"))
    ELSE list

\* faulty variant of SearchFilter: looks for the text in the title only
SearchFilter_titleOnly(list, q) ==
    IF q # <<>>
    THEN SelectSeq(list, LAMBDA todo :
            Includes(ToLowerCase(todo.title), ToLowerCase(q)))
    ELSE list

\* the search filter of getTodos
SearchFilter(list, q) ==
    IF q # <<>>
    THEN SelectSeq(list, LAMBDA todo :
            \/ Includes(ToLowerCase(todo.title), ToLowerCase(q))
            \/ (/\ todo.description # <<>>
                /\ Includes(ToLowerCase(todo.description), ToLowerCase(q))))
    ELSE list

\* what getTodos computes on a cache miss
finalResults(list, f) == SearchFilter(StatusFilter(list, f.status), f.q)

\* faulty variant of getTodos: caches the status-filtered list instead of
\* finalResults
getTodos_cacheUnfiltered(filters) ==
    LET f == WithDefaults(filters)
        cacheKey == getCacheKey(f)
    IN  IF CacheHas(queryCache, cacheKey)
        THEN /\ ret' = Returned("getTodos", cacheKey, CacheGet(queryCache, cacheKey))
             /\ held' = cacheKey
             /\ UNCHANGED <<todos, idCounter, queryCache, issued, sinceClear>>
        ELSE /\ queryCache' = CacheSetWithLimit(queryCache, cacheKey,
                                                StatusFilter(todos, f.status))
             /\ ret' = Returned("getTodos", cacheKey, finalResults(todos, f))
             /\ held' = cacheKey
             /\ UNCHANGED <<todos, idCounter, issued, sinceClear>>

\* faulty variant of getTodos: a hit deletes the entry and sets it again, which
\* moves it to the end of the map's order (least recently used instead of
\* first in, first out)
getTodos_lru(filters) ==
    LET f == WithDefaults(filters)
        cacheKey == getCacheKey(f)
        cached == CacheGet(queryCache, cacheKey)
    IN  IF CacheHas(queryCache, cacheKey)
        THEN /\ ret' = Returned("getTodos", cacheKey, cached)
             /\ queryCache' = SelectSeq(queryCache, LAMBDA e : e.key # cacheKey)
                                  \o <<[key |-> cacheKey, val |-> cached]>>
             /\ held' = cacheKey
             /\ UNCHANGED <<todos, idCounter, issued, sinceClear>>
        ELSE /\ queryCache' = CacheSetWithLimit(queryCache, cacheKey,
                                                finalResults(todos, f))
             /\ ret' = Returned("getTodos", cacheKey, finalResults(todos, f))
             /\ held' = cacheKey
             /\ UNCHANGED <<todos, idCounter, issued, sinceClear>>

getTodos(filters) ==
    LET f == WithDefaults(filters)
        cacheKey == getCacheKey(f)
    IN  IF CacheHas(queryCache, cacheKey)
        THEN /\ ret' = Returned("getTodos", cacheKey, CacheGet(queryCache, cacheKey))
             /\ held' = cacheKey
             /\ UNCHANGED <<todos, idCounter, queryCache, issued, sinceClear>>
        ELSE /\ queryCache' = CacheSetWithLimit(queryCache, cacheKey,
                                                finalResults(todos, f))
             /\ ret' = Returned("getTodos", cacheKey, finalResults(todos, f))
             /\ held' = cacheKey
             /\ UNCHANGED <<todos, idCounter, issued, sinceClear>>

----------------------------------------------------------------------------
(* Mutations *)

\* faulty variant of createTodo: numbers the record by the collection's length
createTodo_lengthId(args, now) ==
    LET hasTitle == "title" \in DOMAIN args
        trimmedTitle == IF hasTitle THEN Trim(args.title) ELSE <<>>
        description == IF "description" \in DOMAIN args
                       THEN args.description ELSE <<>>
        newTodo == [id |-> Len(todos) + 1,
                    title |-> trimmedTitle,
                    description |-> description,
                    completed |-> FALSE,
                    createdAt |-> now]
    IN  IF trimmedTitle = <<>>
        THEN /\ ret' = Threw("createTodo")
             /\ UNCHANGED <<todos, idCounter, queryCache, held, issued, sinceClear>>
        ELSE /\ idCounter' = idCounter + 1
             /\ todos' = Append(todos, newTodo)
             /\ queryCache' = clearCache
             /\ held' = NoKey
             /\ issued' = issued \cup {newTodo.id}
             /\ sinceClear' = sinceClear \cup {newTodo.id}
             /\ ret' = Returned("createTodo", NoKey, newTodo)

\* faulty variant of createTodo: takes the id before it validates the title
createTodo_idFirst(args, now) ==
    LET hasTitle == "title" \in DOMAIN args
        trimmedTitle == IF hasTitle THEN Trim(args.title) ELSE <<>>
        description == IF "description" \in DOMAIN args
                       THEN args.description ELSE <<>>
        newTodo == [id |-> idCounter,
                    title |-> trimmedTitle,
                    description |-> description,
                    completed |-> FALSE,
                    createdAt |-> now]
    IN  /\ idCounter' = idCounter + 1
        /\ IF trimmedTitle = <<>>
           THEN /\ ret' = Threw("createTodo")
                /\ UNCHANGED <<todos, queryCache, held, issued, sinceClear>>
           ELSE /\ todos' = Append(todos, newTodo)
                /\ queryCache' = clearCache
                /\ held' = NoKey
                /\ issued' = issued \cup {idCounter}
                /\ sinceClear' = sinceClear \cup {idCounter}
                /\ ret' = Returned("createTodo", NoKey, newTodo)

\* faulty variant of createTodo: todos.unshift(newTodo) instead of push
createTodo_unshift(args, now) ==
    LET hasTitle == "title" \in DOMAIN args
        trimmedTitle == IF hasTitle THEN Trim(args.title) ELSE <<>>
        description == IF "description" \in DOMAIN args
                       THEN args.description ELSE <<>>
        newTodo == [id |-> idCounter,
                    title |-> trimmedTitle,
                    description |-> description,
                    completed |-> FALSE,
                    createdAt |-> now]
    IN  IF trimmedTitle = <<>>
        THEN /\ ret' = Threw("createTodo")
             /\ UNCHANGED <<todos, idCounter, queryCache, held, issued, sinceClear>>
        ELSE /\ idCounter' = idCounter + 1
             /\ todos' = <<newTodo>> \o todos
             /\ queryCache' = clearCache
             /\ held' = NoKey
             /\ issued' = issued \cup {idCounter}
             /\ sinceClear' = sinceClear \cup {idCounter}
             /\ ret' = Returned("createTodo", NoKey, newTodo)

createTodo(args, now) ==
    LET hasTitle == "title" \in DOMAIN args
        trimmedTitle == IF hasTitle THEN Trim(args.title) ELSE <<>>
        description == IF "description" \in DOMAIN args
                       THEN args.description ELSE <<>>
        newTodo == [id |-> idCounter,
                    title |-> trimmedTitle,
                    description |-> description,
                    completed |-> FALSE,
                    createdAt |-> now]
    IN  IF trimmedTitle = <<>>
        THEN /\ ret' = Threw("createTodo")
             /\ UNCHANGED <<todos, idCounter, queryCache, held, issued, sinceClear>>
        ELSE /\ idCounter' = idCounter + 1
             /\ todos' = Append(todos, newTodo)
             /\ queryCache' = clearCache
             /\ held' = NoKey
             /\ issued' = issued \cup {idCounter}
             /\ sinceClear' = sinceClear \cup {idCounter}
             /\ ret' = Returned("createTodo", NoKey, newTodo)

\* todos.findIndex(todo => todo.id === n), 0 standing for -1
findIndex(list, n) ==
    IF \E i \in 1..Len(list) : list[i].id = n
    THEN CHOOSE i \in 1..Len(list) :
            /\ list[i].id = n
            /\ \A j \in 1..(i - 1) : list[j].id # n
    ELSE 0

\* { ...todo, ...updates }
Spread(todo, updates) ==
    [f \in DOMAIN todo \cup DOMAIN updates |->
        IF f \in DOMAIN updates THEN updates[f] ELSE todo[f]]

\* faulty variant of updateTodo: forgets clearCache()
updateTodo_keepCache(id, updates) ==
    LET todoIndex == findIndex(todos, Number(id))
        todo == todos[todoIndex]
        spread == Spread(todo, updates)
        titleGiven == "title" \in DOMAIN updates
        trimmedTitle == IF titleGiven THEN Trim(updates.title) ELSE <<>>
        updatedTodo == IF titleGiven
                       THEN [spread EXCEPT !.title = trimmedTitle]
                       ELSE spread
    IN  IF todoIndex = 0
        THEN /\ ret' = ReturnedNull("updateTodo")
             /\ UNCHANGED <<todos, idCounter, queryCache, held, issued, sinceClear>>
        ELSE IF titleGiven /\ trimmedTitle = <<>>
        THEN /\ ret' = Threw("updateTodo")
             /\ UNCHANGED <<todos, idCounter, queryCache, held, issued, sinceClear>>
        ELSE /\ todos' = [todos EXCEPT ![todoIndex] = updatedTodo]
             /\ ret' = Returned("updateTodo", NoKey, updatedTodo)
             /\ UNCHANGED <<idCounter, queryCache, held, issued, sinceClear>>

\* faulty variant of updateTodo: stores the trimmed title without checking
\* that it is non-empty
updateTodo_unvalidated(id, updates) ==
    LET todoIndex == findIndex(todos, Number(id))
        todo == todos[todoIndex]
        spread == Spread(todo, updates)
        titleGiven == "title" \in DOMAIN updates
        updatedTodo == IF titleGiven
                       THEN [spread EXCEPT !.title = Trim(updates.title)]
                       ELSE spread
    IN  IF todoIndex = 0
        THEN /\ ret' = ReturnedNull("updateTodo")
             /\ UNCHANGED <<todos, idCounter, queryCache, held, issued, sinceClear>>
        ELSE /\ todos' = [todos EXCEPT ![todoIndex] = updatedTodo]
             /\ queryCache' = clearCache
             /\ held' = NoKey
             /\ ret' = Returned("updateTodo", NoKey, updatedTodo)
             /\ UNCHANGED <<idCounter, issued, sinceClear>>

\* faulty variant of updateTodo: assigns the updates to the stored record
\* before the title is validated
updateTodo_applyFirst(id, updates) ==
    LET todoIndex == findIndex(todos, Number(id))
        todo == todos[todoIndex]
        spread == Spread(todo, updates)
        titleGiven == "title" \in DOMAIN updates
        trimmedTitle == IF titleGiven THEN Trim(updates.title) ELSE <<>>
        updatedTodo == IF titleGiven
                       THEN [spread EXCEPT !.title = trimmedTitle]
                       ELSE spread
    IN  IF todoIndex = 0
        THEN /\ ret' = ReturnedNull("updateTodo")
             /\ UNCHANGED <<todos, idCounter, queryCache, held, issued, sinceClear>>
        ELSE IF titleGiven /\ trimmedTitle = <<>>
        THEN /\ todos' = [todos EXCEPT ![todoIndex] = spread]
             /\ ret' = Threw("updateTodo")
             /\ UNCHANGED <<idCounter, queryCache, held, issued, sinceClear>>
        ELSE /\ todos' = [todos EXCEPT ![todoIndex] = updatedTodo]
             /\ queryCache' = clearCache
             /\ held' = NoKey
             /\ ret' = Returned("updateTodo", NoKey, updatedTodo)
             /\ UNCHANGED <<idCounter, issued, sinceClear>>

\* faulty variant of updateTodo: removes the record and pushes the updated
\* one at the end
updateTodo_moveToEnd(id, updates) ==
    LET todoIndex == findIndex(todos, Number(id))
        todo == todos[todoIndex]
        spread == Spread(todo, updates)
        titleGiven == "title" \in DOMAIN updates
        trimmedTitle == IF titleGiven THEN Trim(updates.title) ELSE <<>>
        updatedTodo == IF titleGiven
                       THEN [spread EXCEPT !.title = trimmedTitle]
                       ELSE spread
    IN  IF todoIndex = 0
        THEN /\ ret' = ReturnedNull("updateTodo")
             /\ UNCHANGED <<todos, idCounter, queryCache, held, issued, sinceClear>>
        ELSE IF titleGiven /\ trimmedTitle = <<>>
        THEN /\ ret' = Threw("updateTodo")
             /\ UNCHANGED <<todos, idCounter, queryCache, held, issued, sinceClear>>
        ELSE /\ todos' = SubSeq(todos, 1, todoIndex - 1)
                            \o SubSeq(todos, todoIndex + 1, Len(todos))
                            \o <<updatedTodo>>
             /\ queryCache' = clearCache
             /\ held' = NoKey
             /\ ret' = Returned("updateTodo", NoKey, updatedTodo)
             /\ UNCHANGED <<idCounter, issued, sinceClear>>

updateTodo(id, updates) ==
    LET todoIndex == findIndex(todos, Number(id))
        todo == todos[todoIndex]
        spread == Spread(todo, updates)
        titleGiven == "title" \in DOMAIN updates
        trimmedTitle == IF titleGiven THEN Trim(updates.title) ELSE <<>>
        updatedTodo == IF titleGiven
                       THEN [spread EXCEPT !.title = trimmedTitle]
                       ELSE spread
    IN  IF todoIndex = 0
        THEN /\ ret' = ReturnedNull("updateTodo")
             /\ UNCHANGED <<todos, idCounter, queryCache, held, issued, sinceClear>>
        ELSE IF titleGiven /\ trimmedTitle = <<>>
        THEN /\ ret' = Threw("updateTodo")
             /\ UNCHANGED <<todos, idCounter, queryCache, held, issued, sinceClear>>
        ELSE /\ todos' = [todos EXCEPT ![todoIndex] = updatedTodo]
             /\ queryCache' = clearCache
             /\ held' = NoKey
             /\ ret' = Returned("updateTodo", NoKey, updatedTodo)
             /\ UNCHANGED <<idCounter, issued, sinceClear>>

\* todo.completed = !todo.completed
Flip(todo) == [todo EXCEPT !.completed = ~todo.completed]

\* faulty variant of toggleTodo: forgets clearCache()
toggleTodo_keepCache(id) ==
    LET idx == findIndex(todos, Number(id))
    IN  IF idx = 0
        THEN /\ ret' = ReturnedNull("toggleTodo")
             /\ UNCHANGED <<todos, idCounter, queryCache, held, issued, sinceClear>>
        ELSE /\ todos' = [todos EXCEPT ![idx] = Flip(todos[idx])]
             /\ ret' = Returned("toggleTodo", NoKey, Flip(todos[idx]))
             /\ UNCHANGED <<idCounter, queryCache, held, issued, sinceClear>>

\* faulty variant of toggleTodo: todo.completed = true
toggleTodo_setTrue(id) ==
    LET idx == findIndex(todos, Number(id))
        done == [todos[idx] EXCEPT !.completed = TRUE]
    IN  IF idx = 0
        THEN /\ ret' = ReturnedNull("toggleTodo")
             /\ UNCHANGED <<todos, idCounter, queryCache, held, issued, sinceClear>>
        ELSE /\ todos' = [todos EXCEPT ![idx] = done]
             /\ queryCache' = clearCache
             /\ held' = NoKey
             /\ ret' = Returned("toggleTodo", NoKey, done)
             /\ UNCHANGED <<idCounter, issued, sinceClear>>

toggleTodo(id) ==
    LET idx == findIndex(todos, Number(id))
    IN  IF idx = 0
        THEN /\ ret' = ReturnedNull("toggleTodo")
             /\ UNCHANGED <<todos, idCounter, queryCache, held, issued, sinceClear>>
        ELSE /\ todos' = [todos EXCEPT ![idx] = Flip(todos[idx])]
             /\ queryCache' = clearCache
             /\ held' = NoKey
             /\ ret' = Returned("toggleTodo", NoKey, Flip(todos[idx]))
             /\ UNCHANGED <<idCounter, issued, sinceClear>>

\* todos.splice(idx, 1)
Splice(list, idx) == SubSeq(list, 1, idx - 1) \o SubSeq(list, idx + 1, Len(list))

\* faulty variant of deleteTodo: hands the counter back to the collection's
\* length
deleteTodo_recycle(id) ==
    LET idx == findIndex(todos, Number(id))
    IN  IF idx = 0
        THEN /\ ret' = ReturnedNull("deleteTodo")
             /\ UNCHANGED <<todos, idCounter, queryCache, held, issued, sinceClear>>
        ELSE /\ todos' = Splice(todos, idx)
             /\ idCounter' = Len(todos)
             /\ queryCache' = clearCache
             /\ held' = NoKey
             /\ ret' = Returned("deleteTodo", NoKey, todos[idx])
             /\ UNCHANGED <<issued, sinceClear>>

\* faulty variant of deleteTodo: clears the cache before it looks the id up
deleteTodo_clearFirst(id) ==
    LET idx == findIndex(todos, Number(id))
    IN  IF idx = 0
        THEN /\ ret' = ReturnedNull("deleteTodo")
             /\ queryCache' = clearCache
             /\ held' = NoKey
             /\ UNCHANGED <<todos, idCounter, issued, sinceClear>>
        ELSE /\ todos' = Splice(todos, idx)
             /\ queryCache' = clearCache
             /\ held' = NoKey
             /\ ret' = Returned("deleteTodo", NoKey, todos[idx])
             /\ UNCHANGED <<idCounter, issued, sinceClear>>

\* faulty variant of deleteTodo: todos.splice(idx), which removes the record
\* and every record after it
deleteTodo_spliceRest(id) ==
    LET idx == findIndex(todos, Number(id))
    IN  IF idx = 0
        THEN /\ ret' = ReturnedNull("deleteTodo")
             /\ UNCHANGED <<todos, idCounter, queryCache, held, issued, sinceClear>>
        ELSE /\ todos' = SubSeq(todos, 1, idx - 1)
             /\ queryCache' = clearCache
             /\ held' = NoKey
             /\ ret' = Returned("deleteTodo", NoKey, todos[idx])
             /\ UNCHANGED <<idCounter, issued, sinceClear>>

deleteTodo(id) ==
    LET idx == findIndex(todos, Number(id))
    IN  IF idx = 0
        THEN /\ ret' = ReturnedNull("deleteTodo")
             /\ UNCHANGED <<todos, idCounter, queryCache, held, issued, sinceClear>>
        ELSE /\ todos' = Splice(todos, idx)
             /\ queryCache' = clearCache
             /\ held' = NoKey
             /\ ret' = Returned("deleteTodo", NoKey, todos[idx])
             /\ UNCHANGED <<idCounter, issued, sinceClear>>

\* new Set(ids.map(id => Number(id)))
idSetOf(ids) == {Number(ids[i]) : i \in 1..Len(ids)}

\* faulty variant of bulkToggleTodos: flips once per element of ids instead of
\* once per record, so an id given twice is flipped back
bulkToggleTodos_perId(ids) ==
    LET idSet == idSetOf(ids)
        times(n) == Cardinality({k \in 1..Len(ids) : Number(ids[k]) = n})
        toggled == [i \in 1..Len(todos) |->
                        IF times(todos[i].id) % 2 = 1
                        THEN Flip(todos[i]) ELSE todos[i]]
        updatedTodos == SelectSeq(toggled, LAMBDA todo : todo.id \in idSet)
    IN  /\ todos' = toggled
        /\ IF Len(updatedTodos) > 0
           THEN queryCache' = clearCache /\ held' = NoKey
           ELSE UNCHANGED <<queryCache, held>>
        /\ ret' = Returned("bulkToggleTodos", NoKey, updatedTodos)
        /\ UNCHANGED <<idCounter, issued, sinceClear>>

bulkToggleTodos(ids) ==
    LET idSet == idSetOf(ids)
        toggled == [i \in 1..Len(todos) |->
                        IF todos[i].id \in idSet THEN Flip(todos[i]) ELSE todos[i]]
        updatedTodos == SelectSeq(toggled, LAMBDA todo : todo.id \in idSet)
    IN  /\ todos' = toggled
        /\ IF Len(updatedTodos) > 0
           THEN queryCache' = clearCache /\ held' = NoKey
           ELSE UNCHANGED <<queryCache, held>>
        /\ ret' = Returned("bulkToggleTodos", NoKey, updatedTodos)
        /\ UNCHANGED <<idCounter, issued, sinceClear>>

\* faulty variant of bulkDeleteTodos: forgets clearCache()
bulkDeleteTodos_keepCache(ids) ==
    LET idSet == idSetOf(ids)
        deletedTodos == SelectSeq(todos, LAMBDA todo : todo.id \in idSet)
    IN  /\ todos' = SelectSeq(todos, LAMBDA todo : todo.id \notin idSet)
        /\ ret' = Returned("bulkDeleteTodos", NoKey, deletedTodos)
        /\ UNCHANGED <<idCounter, queryCache, held, issued, sinceClear>>

\* faulty variant of bulkDeleteTodos: collects the survivors with unshift, so
\* they end up in reverse order
bulkDeleteTodos_reversed(ids) ==
    LET idSet == idSetOf(ids)
        deletedTodos == SelectSeq(todos, LAMBDA todo : todo.id \in idSet)
        kept == SelectSeq(todos, LAMBDA todo : todo.id \notin idSet)
    IN  /\ todos' = [i \in 1..Len(kept) |-> kept[Len(kept) + 1 - i]]
        /\ IF Len(deletedTodos) > 0
           THEN queryCache' = clearCache /\ held' = NoKey
           ELSE UNCHANGED <<queryCache, held>>
        /\ ret' = Returned("bulkDeleteTodos", NoKey, deletedTodos)
        /\ UNCHANGED <<idCounter, issued, sinceClear>>

bulkDeleteTodos(ids) ==
    LET idSet == idSetOf(ids)
        deletedTodos == SelectSeq(todos, LAMBDA todo : todo.id \in idSet)
    IN  /\ todos' = SelectSeq(todos, LAMBDA todo : todo.id \notin idSet)
        /\ IF Len(deletedTodos) > 0
           THEN queryCache' = clearCache /\ held' = NoKey
           ELSE UNCHANGED <<queryCache, held>>
        /\ ret' = Returned("bulkDeleteTodos", NoKey, deletedTodos)
        /\ UNCHANGED <<idCounter, issued, sinceClear>>

\* faulty variant of todoStats: the pass has no else branch, so active is
\* incremented for every record
todoStats_activeEvery(list) ==
    [total |-> Len(list),
     active |-> Len(list),
     completed |-> Len(SelectSeq(list, LAMBDA todo : todo.completed))]

\* the counts getTodoStats makes in one pass over the collection
todoStats(list) ==
    [total |-> Len(list),
     active |-> Len(SelectSeq(list, LAMBDA todo : ~todo.completed)),
     completed |-> Len(SelectSeq(list, LAMBDA todo : todo.completed))]

getTodoStats ==
    /\ ret' = Returned("getTodoStats", NoKey, todoStats(todos))
    /\ UNCHANGED <<todos, idCounter, queryCache, held, issued, sinceClear>>

\* faulty variant of clearAllTodos: reads todos.length after the collection
\* was emptied
clearAllTodos_countAfter ==
    /\ todos' = <<>>
    /\ idCounter' = 1
    /\ queryCache' = clearCache
    /\ held' = NoKey
    /\ sinceClear' = {}
    /\ ret' = Returned("clearAllTodos", NoKey, 0)
    /\ UNCHANGED issued

clearAllTodos ==
    /\ todos' = <<>>
    /\ idCounter' = 1
    /\ queryCache' = clearCache
    /\ held' = NoKey
    /\ sinceClear' = {}
    /\ ret' = Returned("clearAllTodos", NoKey, Len(todos))
    /\ UNCHANGED issued

\* a caller that changes the array getTodos gave it (result.pop()): the array
\* is the one the cache holds under `held`, as long as the cache holds it
callerPop ==
    /\ held # NoKey
    /\ CacheHas(queryCache, held)
    /\ CacheGet(queryCache, held) # <<>>
    /\ queryCache' = [i \in 1..Len(queryCache) |->
            IF queryCache[i].key = held
            THEN [queryCache[i] EXCEPT
                    !.val = SubSeq(@, 1, Len(@) - 1)]
            ELSE queryCache[i]]
    /\ ret' = Returned("callerPop", held, <<>>)
    /\ UNCHANGED <<todos, idCounter, held, issued, sinceClear, resp, page, form>>

----------------------------------------------------------------------------
(* HTTP routes.  A request body is [kind |-> "invalid"] when req.json()      *)
(* rejects, [kind |-> "null"] or [kind |-> "number"] for JSON that is no     *)
(* object, and [kind |-> "object", fields |-> f] for an object, f mapping    *)
(* each property to a JSON value: [str |-> s], [num |-> n], [bool |-> b] or  *)
(* [null |-> TRUE].                                                          *)

IsString(v) == "str" \in DOMAIN v
IsBoolean(v) == "bool" \in DOMAIN v
IsNull(v) == "null" \in DOMAIN v

\* JavaScript truthiness of a JSON value
Truthy(v) ==
    IF IsString(v) THEN v.str # <<>>
    ELSE IF IsBoolean(v) THEN v.bool
    ELSE IF IsNull(v) THEN FALSE
    ELSE v.num # 0

Response(status, action, body) ==
    [status |-> status, action |-> action, body |-> body]

createErrorResponse(status) == Response(status, "error", <<>>)

handleNotFound == createErrorResponse(404)

\* validateTodoId: the path parameter is a string; the ids of the model stay
\* far below MAX_ID_VALUE (Number.MAX_SAFE_INTEGER)
validateTodoId(id) ==
    IF id.str = <<>> THEN [ok |-> FALSE]
    ELSE IF Number(id) = NaN \/ Number(id) <= 0 THEN [ok |-> FALSE]
    ELSE [ok |-> TRUE, id |-> [num |-> Number(id)]]

allowedFields == {"title", "description", "completed"}

\* faulty variant of UpdateFieldThrows: the two length checks are missing
UpdateFieldThrows_noLength(key, value) ==
    \/ key \notin allowedFields
    \/ key = "title" /\ ~IsString(value)
    \/ key = "description" /\ ~IsNull(value) /\ ~IsString(value)
    \/ key = "completed" /\ ~IsBoolean(value)

\* whether validateUpdateData throws on one entry of the body
UpdateFieldThrows(key, value) ==
    \/ key \notin allowedFields
    \/ key = "title" /\ (~IsString(value) \/ Len(value.str) > MAX_TITLE_LENGTH)
    \/ key = "description" /\ ~IsNull(value) /\ ~IsString(value)
    \/ key = "description" /\ IsString(value)
            /\ Len(value.str) > MAX_DESCRIPTION_LENGTH
    \/ key = "completed" /\ ~IsBoolean(value)

\* the value validateUpdateData copies into `updates` for an entry it accepts
UpdateFieldValue(key, value) ==
    CASE key = "title" -> Trim(value.str)
      [] key = "description" ->
            IF IsString(value) /\ Truthy(value) THEN Trim(value.str) ELSE <<>>
      [] OTHER -> value.bool

validateUpdateData(body) ==
    IF body.kind # "object" THEN [ok |-> FALSE]
    ELSE IF \E key \in DOMAIN body.fields : UpdateFieldThrows(key, body.fields[key])
    THEN [ok |-> FALSE]
    ELSE IF DOMAIN body.fields = {} THEN [ok |-> FALSE]
    ELSE [ok |-> TRUE,
          updates |-> [key \in DOMAIN body.fields |->
                            UpdateFieldValue(key, body.fields[key])]]

\* the test of PATCH for a toggle request: no body, or only a toggle flag
IsToggleBody(body) ==
    \/ body.kind = "null"
    \/ body.kind = "object" /\ DOMAIN body.fields = {"toggle"}

\* PATCH /api/todos/:id.  validateUpdateData is called inside the try block
\* whose catch handles a failed req.json(), so that what it throws is handled
\* there too
PATCH(id, body) ==
    LET v == validateTodoId(id)
        toggles == \/ body.kind = "invalid"
                   \/ IsToggleBody(body)
                   \/ ~validateUpdateData(body).ok
    IN  IF ~v.ok
        THEN /\ resp' = createErrorResponse(400)
             /\ UNCHANGED <<todos, idCounter, queryCache, ret, held, issued, sinceClear>>
        ELSE IF toggles
        THEN /\ toggleTodo(v.id)
             /\ resp' = IF ret'.status = "null" THEN handleNotFound
                        ELSE Response(200, "toggled", ret'.val)
        ELSE /\ updateTodo(v.id, validateUpdateData(body).updates)
             /\ resp' = CASE ret'.status = "throw" -> createErrorResponse(400)
                          [] ret'.status = "null" -> handleNotFound
                          [] OTHER -> Response(200, "updated", ret'.val)

\* the object PUT hands to validateUpdateData: body.title,
\* body.description || '' and Boolean(body.completed)
PutData(body) ==
    LET f == body.fields
    IN  [kind |-> "object", fields |->
               [title |-> f.title,
                description |-> IF "description" \in DOMAIN f /\ Truthy(f.description)
                                THEN f.description ELSE [str |-> <<>>],
                completed |-> [bool |-> "completed" \in DOMAIN f
                                            /\ Truthy(f.completed)]]]

\* PUT /api/todos/:id.  A failed req.json(), a body without a truthy title
\* (body.title of null is a TypeError for the outer catch), and what
\* validateUpdateData or updateTodo throw all give 400
PUT(id, body) ==
    LET v == validateTodoId(id)
        hasTitle == /\ body.kind = "object"
                    /\ "title" \in DOMAIN body.fields
                    /\ Truthy(body.fields.title)
    IN  IF ~v.ok \/ ~hasTitle
        THEN /\ resp' = createErrorResponse(400)
             /\ UNCHANGED <<todos, idCounter, queryCache, ret, held, issued, sinceClear>>
        ELSE IF ~validateUpdateData(PutData(body)).ok
        THEN /\ resp' = createErrorResponse(400)
             /\ UNCHANGED <<todos, idCounter, queryCache, ret, held, issued, sinceClear>>
        ELSE /\ updateTodo(v.id, validateUpdateData(PutData(body)).updates)
             /\ resp' = CASE ret'.status = "throw" -> createErrorResponse(400)
                          [] ret'.status = "null" -> handleNotFound
                          [] OTHER -> Response(200, "replaced", ret'.val)

\* DELETE /api/todos/:id
DELETE(id) ==
    LET v == validateTodoId(id)
    IN  IF ~v.ok
        THEN /\ resp' = createErrorResponse(400)
             /\ UNCHANGED <<todos, idCounter, queryCache, ret, held, issued, sinceClear>>
        ELSE /\ deleteTodo(v.id)
             /\ resp' = IF ret'.status = "null" THEN handleNotFound
                        ELSE Response(200, "deleted", ret'.val)

\* validateTodoData: "400" when it throws a message with "must be", "500" when
\* description.trim() is a TypeError, else the data passed to createTodo
validateTodoData(body) ==
    IF body.kind # "object" THEN [ok |-> FALSE, status |-> 400]
    ELSE
    LET f == body.fields
        hasDescription == "description" \in DOMAIN f
    IN  IF "title" \notin DOMAIN f \/ ~IsString(f.title)
        THEN [ok |-> FALSE, status |-> 400]
        ELSE IF Len(f.title.str) > MAX_TITLE_LENGTH
        THEN [ok |-> FALSE, status |-> 400]
        ELSE IF hasDescription /\ Truthy(f.description) /\ ~IsString(f.description)
        THEN [ok |-> FALSE, status |-> 400]
        ELSE IF hasDescription /\ Truthy(f.description)
                /\ Len(f.description.str) > MAX_DESCRIPTION_LENGTH
        THEN [ok |-> FALSE, status |-> 400]
        ELSE IF hasDescription /\ ~IsString(f.description)
        THEN [ok |-> FALSE, status |-> 500]
        ELSE [ok |-> TRUE,
              data |-> [title |-> Trim(f.title.str),
                        description |-> IF hasDescription
                                        THEN Trim(f.description.str) ELSE <<>>]]

\* POST /api/todos
POST(body, now) ==
    LET v == validateTodoData(body)
    IN  IF body.kind = "invalid"
        THEN /\ resp' = createErrorResponse(400)
             /\ UNCHANGED <<todos, idCounter, queryCache, ret, held, issued, sinceClear>>
        ELSE IF ~v.ok
        THEN /\ resp' = createErrorResponse(v.status)
             /\ UNCHANGED <<todos, idCounter, queryCache, ret, held, issued, sinceClear>>
        ELSE /\ createTodo(v.data, now)
             /\ resp' = IF ret'.status = "throw" THEN createErrorResponse(400)
                        ELSE Response(201, "created", ret'.val)

VALID_STATUSES == {"all", "active", "completed"}

\* validateQueryParams: searchParams.get(name) || default
validateQueryParams(searchParams) ==
    LET status == IF "status" \in DOMAIN searchParams /\ searchParams.status # ""
                  THEN searchParams.status ELSE "all"
        q == IF "q" \in DOMAIN searchParams THEN searchParams.q ELSE <<>>
    IN  IF status \notin VALID_STATUSES THEN [ok |-> FALSE]
        ELSE [ok |-> TRUE,
              status |-> status,
              q |-> IF Len(q) > MAX_QUERY_LENGTH
                    THEN SubSeq(q, 1, MAX_QUERY_LENGTH) ELSE q,
              includeStats |-> /\ "includeStats" \in DOMAIN searchParams
                               /\ searchParams.includeStats = "true"]

\* GET /api/todos; `ret` keeps what getTodos returned, the stats go into the
\* response
GET(searchParams) ==
    LET v == validateQueryParams(searchParams)
    IN  IF ~v.ok
        THEN /\ resp' = createErrorResponse(400)
             /\ UNCHANGED <<todos, idCounter, queryCache, ret, held, issued, sinceClear>>
        ELSE /\ getTodos([status |-> v.status, q |-> v.q])
             /\ resp' = Response(200, "list",
                            IF v.includeStats
                            THEN [todos |-> ret'.val, stats |-> todoStats(todos)]
                            ELSE [todos |-> ret'.val])

----------------------------------------------------------------------------
(* Inputs *)

Num(n) == [num |-> n]
Str(s) == [str |-> s]

Timestamps == {"T1"}

\* records are created and rewritten as ("A", "") or ("b", "a")
CreateArgs ==
    {[title |-> <<"A">>],
     [title |-> <<" ", "b", " ">>, description |-> <<"a">>],
     [title |-> <<" ">>, description |-> <<"a">>],
     [title |-> <<>>],
     [description |-> <<"a">>]}

UpdateArgs ==
    {[title |-> <<" ", "b", " ">>, description |-> <<"a">>],
     [title |-> <<"A">>, description |-> <<>>],
     [title |-> <<" ">>, completed |-> TRUE],
     [completed |-> TRUE]}

Ids == {Num(n) : n \in 1..(MaxId + 1)} \cup {Str(<<"1">>)}

IdLists ==
    {<<>>, <<Num(2), Num(1)>>, <<Num(1), Str(<<"1">>)>>,
     <<Str(<<"2">>), Num(MaxId + 1)>>, <<Str(<<"x">>)>>}

Filters ==
    {[status |-> "all", q |-> <<>>], [status |-> "active", q |-> <<"B">>],
     [status |-> "completed"]}

JStr(s) == [str |-> s]
JNum(n) == [num |-> n]
JBool(b) == [bool |-> b]
JNull == [null |-> TRUE]

Object(f) == [kind |-> "object", fields |-> f]
InvalidJson == [kind |-> "invalid"]

Repeat(c, n) == [i \in 1..n |-> c]

PathIds == {Str(<<"1">>), Str(<<"2">>), Str(<<"x">>)}

PostBodies ==
    {InvalidJson,
     [kind |-> "null"],
     Object([title |-> JStr(<<"A">>), description |-> JStr(<<" ", "a">>)]),
     Object([title |-> JStr(<<" ", "b", " ">>)]),
     Object([title |-> JStr(<<" ">>)]),
     Object([title |-> JNum(5)]),
     Object([title |-> JStr(Repeat("b", MAX_TITLE_LENGTH + 1))]),
     Object([title |-> JStr(<<"A">>),
             description |-> JStr(Repeat("a", MAX_DESCRIPTION_LENGTH + 1))]),
     Object([title |-> JStr(<<"A">>), description |-> JNull])}

PatchBodies ==
    {InvalidJson,
     [kind |-> "null"],
     Object([toggle |-> JBool(TRUE)]),
     Object([completed |-> JBool(TRUE)]),
     Object([title |-> JStr(<<" ", "b">>), description |-> JNull]),
     Object([title |-> JStr(<<" ">>), completed |-> JBool(FALSE)]),
     Object([foo |-> JNum(1)]),
     Object([title |-> JNum(5)]),
     Object([completed |-> JStr(<<"a">>)]),
     Object([title |-> JStr(Repeat("b", MAX_TITLE_LENGTH + 1))]),
     Object([description |-> JStr(Repeat("a", MAX_DESCRIPTION_LENGTH + 1))])}

SearchParams ==
    {[status |-> "active", q |-> <<"A">>],
     [status |-> "completed", includeStats |-> "true"],
     [status |-> "done"],
     [q |-> Repeat("a", MAX_QUERY_LENGTH + 1)]}

----------------------------------------------------------------------------
Init ==
    /\ todos = <<>>
    /\ idCounter = 1
    /\ queryCache = <<>>
    /\ ret = [op |-> "none", status |-> "ok", key |-> NoKey, val |-> <<>>]
    /\ held = NoKey
    /\ issued = {}
    /\ sinceClear = {}
    /\ resp = Response(0, "none", <<>>)
    /\ page = [todos |-> <<>>,
               filters |-> [status |-> "all", query |-> <<>>],
               effect |-> TRUE,
               lists |-> {},
               mutations |-> {},
               asked |-> FALSE,
               answer |-> <<>>]
    /\ form = [title |-> <<>>, isSubmitting |-> FALSE, rendered |-> FALSE,
               posts |-> <<>>]

(* Direct calls of the store's exports *)

Query == \E f \in Filters : getTodos(f) /\ UNCHANGED <<resp, page, form>>

Create ==
    /\ idCounter <= MaxId
    /\ \E a \in CreateArgs, now \in Timestamps :
            createTodo(a, now) /\ UNCHANGED <<resp, page, form>>

Update == \E id \in Ids, u \in UpdateArgs : updateTodo(id, u) /\ UNCHANGED <<resp, page, form>>

Toggle == \E id \in Ids : toggleTodo(id) /\ UNCHANGED <<resp, page, form>>

Delete == \E id \in Ids : deleteTodo(id) /\ UNCHANGED <<resp, page, form>>

BulkToggle == \E ids \in IdLists : bulkToggleTodos(ids) /\ UNCHANGED <<resp, page, form>>

BulkDelete == \E ids \in IdLists : bulkDeleteTodos(ids) /\ UNCHANGED <<resp, page, form>>

Stats == getTodoStats /\ UNCHANGED <<resp, page, form>>

ClearAll == clearAllTodos /\ UNCHANGED <<resp, page, form>>

Next ==
    \/ Query
    \/ Create
    \/ Update
    \/ Toggle
    \/ Delete
    \/ BulkToggle
    \/ BulkDelete
    \/ Stats
    \/ ClearAll

\* every operation the store exports
Spec == Init /\ [][Next]_vars

NextNoClear ==
    \/ Query
    \/ Create
    \/ Update
    \/ Toggle
    \/ Delete
    \/ BulkToggle
    \/ BulkDelete
    \/ Stats

\* the store without clearAllTodos, which no route calls
SpecNoClear == Init /\ [][NextNoClear]_vars

NextCaller ==
    \/ Query
    \/ Create
    \/ Update
    \/ Toggle
    \/ Delete
    \/ BulkToggle
    \/ BulkDelete
    \/ Stats
    \/ ClearAll
    \/ callerPop

\* the store with a caller that changes the arrays it is given
SpecCaller == Init /\ [][NextCaller]_vars

(* Requests *)

Post ==
    /\ idCounter <= MaxId
    /\ \E body \in PostBodies, now \in Timestamps : POST(body, now)
    /\ UNCHANGED <<page, form>>

Patch ==
    \E id \in PathIds, body \in PatchBodies :
        PATCH(id, body) /\ UNCHANGED <<page, form>>

DeleteRequest == \E id \in PathIds : DELETE(id) /\ UNCHANGED <<page, form>>

Get == \E p \in SearchParams : GET(p) /\ UNCHANGED <<page, form>>

NextHttp ==
    \/ Post
    \/ Patch
    \/ DeleteRequest
    \/ Get

\* the store as the HTTP routes drive it
SpecHttp == Init /\ [][NextHttp]_vars

\* ---- the store with records that differ in every field ----

CreationTimes == {"T1", "T2"}

FieldCreateArgs ==
    {[title |-> <<" ", "b", " ">>, description |-> <<"a">>],
     [title |-> <<"A">>],
     [title |-> <<" ">>]}

FieldUpdateArgs ==
    {[title |-> <<" ", "A">>],
     [title |-> <<"b">>, completed |-> FALSE],
     [description |-> <<>>],
     [description |-> <<"a">>, completed |-> TRUE],
     [title |-> <<" ">>, description |-> <<"a">>]}

CreateFields ==
    /\ idCounter <= MaxId
    /\ \E a \in FieldCreateArgs, now \in CreationTimes :
            createTodo(a, now) /\ UNCHANGED <<resp, page, form>>

UpdateFields ==
    \E id \in Ids, u \in FieldUpdateArgs : updateTodo(id, u) /\ UNCHANGED <<resp, page, form>>

NextFields ==
    \/ CreateFields
    \/ UpdateFields
    \/ Toggle
    \/ Delete
    \/ BulkToggle

SpecFields == Init /\ [][NextFields]_vars

\* ---- the store with enough records for deletions to leave several ----

OrderIds == {Num(n) : n \in 1..(MaxRecords + 1)} \cup {Str(<<"2">>)}

OrderIdLists ==
    {<<>>, <<Num(2)>>, <<Num(3), Num(1)>>, <<Str(<<"2">>), Num(2)>>,
     <<Num(1), Num(MaxRecords + 1)>>}

CreateOrdered ==
    /\ idCounter <= MaxRecords
    /\ createTodo([title |-> <<"A">>], "T1")
    /\ UNCHANGED <<resp, page, form>>

ToggleOrdered == \E id \in OrderIds : toggleTodo(id) /\ UNCHANGED <<resp, page, form>>

DeleteOrdered == \E id \in OrderIds : deleteTodo(id) /\ UNCHANGED <<resp, page, form>>

BulkDeleteOrdered ==
    \E ids \in OrderIdLists : bulkDeleteTodos(ids) /\ UNCHANGED <<resp, page, form>>

NextOrder ==
    \/ CreateOrdered
    \/ ToggleOrdered
    \/ DeleteOrdered
    \/ BulkDeleteOrdered

SpecOrder == Init /\ [][NextOrder]_vars

\* ---- a client that searches for more texts than the cache holds ----

\* the search texts "", "a", "aa", ...
SearchFor(n) == [status |-> "all", q |-> Repeat("a", n)]

IsCached(n) == CacheHas(queryCache, getCacheKey(SearchFor(n)))

\* the shortest of the search texts that the cache does not hold
FreshLength ==
    CHOOSE n \in 0..Len(queryCache) :
        ~IsCached(n) /\ \A m \in 0..(n - 1) : IsCached(m)

QueryFresh == getTodos(SearchFor(FreshLength)) /\ UNCHANGED <<resp, page, form>>

\* the query of the oldest or of the newest entry of the cache, once more
QueryCached ==
    \E i \in {1, Len(queryCache)} \cap DOMAIN queryCache :
        \E n \in 0..CACHE_SIZE_LIMIT :
            /\ queryCache[i].key = getCacheKey(SearchFor(n))
            /\ getTodos(SearchFor(n))
            /\ UNCHANGED <<resp, page, form>>

CreateSearched ==
    /\ idCounter <= MaxId
    /\ createTodo([title |-> <<"A">>], "T1")
    /\ UNCHANGED <<resp, page, form>>

NextEvict ==
    \/ QueryFresh
    \/ QueryCached
    \/ CreateSearched

SpecEvict == Init /\ [][NextEvict]_vars

\* ---- counting and clearing a store of several records ----

QueryCompleted == getTodos([status |-> "completed"]) /\ UNCHANGED <<resp, page, form>>

NextCounts ==
    \/ CreateOrdered
    \/ ToggleOrdered
    \/ DeleteOrdered
    \/ QueryCompleted
    \/ Stats
    \/ ClearAll

SpecCounts == Init /\ [][NextCounts]_vars

\* ---- queries with every status and with search texts in both cases ----

SearchCreateArgs ==
    {[title |-> <<"A", "b">>],
     [title |-> <<"b">>, description |-> <<"B", "a">>]}

SearchTexts ==
    {<<>>, <<"B">>, <<"a">>, <<"a", "B">>, <<"b", "A">>, <<"b", "b">>}

SearchFilters ==
    {[status |-> st, q |-> q] : st \in VALID_STATUSES, q \in SearchTexts}

CreateSearchable ==
    /\ idCounter <= MaxId
    /\ \E a \in SearchCreateArgs : createTodo(a, "T1") /\ UNCHANGED <<resp, page, form>>

QuerySearch ==
    \E f \in SearchFilters :
        /\ Len(queryCache) < MaxCached \/ CacheHas(queryCache, getCacheKey(f))
        /\ getTodos(f)
        /\ UNCHANGED <<resp, page, form>>

NextSearch ==
    \/ CreateSearchable
    \/ Toggle
    \/ Delete
    \/ QuerySearch

SpecSearch == Init /\ [][NextSearch]_vars

\* ---- requests with titles and descriptions at and over the length limits ----

LongTitle == Repeat("b", MAX_TITLE_LENGTH)
LongDescription == Repeat("a", MAX_DESCRIPTION_LENGTH)

LongPostBodies ==
    {Object([title |-> JStr(<<"A">>)]),
     Object([title |-> JStr(LongTitle), description |-> JStr(LongDescription)]),
     Object([title |-> JStr(LongTitle \o <<" ">>)]),
     Object([title |-> JStr(<<"A">>),
             description |-> JStr(LongDescription \o <<"a">>)])}

LongPatchBodies ==
    {Object([title |-> JStr(LongTitle)]),
     Object([title |-> JStr(LongTitle \o <<"b">>)]),
     Object([description |-> JStr(LongDescription)]),
     Object([description |-> JStr(<<" ">> \o LongDescription)]),
     Object([title |-> JStr(<<"A">>), description |-> JNull])}

LongPutBodies ==
    {InvalidJson,
     [kind |-> "null"],
     Object([description |-> JStr(<<"a">>)]),
     Object([title |-> JStr(<<" ">>)]),
     Object([title |-> JStr(<<"A">>), completed |-> JNum(1)]),
     Object([title |-> JStr(LongTitle), description |-> JStr(LongDescription)]),
     Object([title |-> JStr(<<"b">> \o LongTitle)]),
     Object([title |-> JStr(<<"A">>),
             description |-> JStr(LongDescription \o <<" ">>)]),
     Object([title |-> JStr(<<"A">>), description |-> JNum(5)])}

PostLong ==
    /\ idCounter <= MaxId
    /\ \E body \in LongPostBodies : POST(body, "T1")
    /\ UNCHANGED <<page, form>>

PatchLong ==
    \E id \in PathIds, body \in LongPatchBodies :
        PATCH(id, body) /\ UNCHANGED <<page, form>>

PutLong ==
    \E id \in PathIds, body \in LongPutBodies :
        PUT(id, body) /\ UNCHANGED <<page, form>>

NextLengths ==
    \/ PostLong
    \/ PatchLong
    \/ PutLong

SpecLengths == Init /\ [][NextLengths]_vars

----------------------------------------------------------------------------
(* The page (app/page.js) and the form (CreateTodoForm) in the browser.    *)
(* A request in flight is "sent" until the route handler has run and       *)
(* "answered" until its response has reached the component; requests are   *)
(* handled and responses arrive in any order.                              *)

\* the path segment `${id}` of a request URL
IdPath(n) == [str |-> <<CHOOSE c \in {"1", "2", "3", "4", "5", "6", "7", "8", "9"} :
                            DigitValue(c) = n>>]

\* fetchTodos(custom): custom.status ?? "all", custom.query ?? "", then the
\* GET request is sent.  `answer` is the response to the request sent last.
fetchTodos(pg, custom) ==
    LET status == IF "status" \in DOMAIN custom THEN custom.status ELSE "all"
        query == IF "query" \in DOMAIN custom THEN custom.query ELSE <<>>
    IN  [pg EXCEPT
            !.lists = {[r EXCEPT !.latest = FALSE] : r \in pg.lists}
                        \cup {[filters |-> [status |-> status, query |-> query],
                               latest |-> TRUE,
                               phase |-> "sent",
                               ok |-> FALSE,
                               todos |-> <<>>]},
            !.asked = TRUE,
            !.answer = <<>>]

\* useEffect(() => { fetchTodos(); }, [fetchTodos]): runs after mount and after
\* a render in which filters, and with it fetchTodos, has changed (a filters
\* object with other values; the same values in a new object are not told
\* apart here)
fetchEffect ==
    /\ page.effect
    /\ Cardinality(page.lists) < MaxInFlight
    /\ page' = fetchTodos([page EXCEPT !.effect = FALSE], page.filters)
    /\ UNCHANGED <<todos, idCounter, queryCache, ret, held, issued, sinceClear,
                   resp, form>>

\* onFilter: setFilters(f); fetchTodos(f)
onFilter(f) ==
    /\ Cardinality(page.lists) < MaxInFlight
    /\ page' = fetchTodos([page EXCEPT !.filters = f,
                                       !.effect = @ \/ f # page.filters], f)
    /\ UNCHANGED <<todos, idCounter, queryCache, ret, held, issued, sinceClear,
                   resp, form>>

\* handleToggle(id) and handleDelete(id) up to their await: the request is
\* sent; the fetchTodos the handler will call is the one of this render
sendMutation(method, id) ==
    /\ Cardinality(page.mutations) < MaxMutations
    /\ page' = [page EXCEPT !.mutations = @ \cup
                    {[method |-> method, id |-> id, filters |-> page.filters,
                      phase |-> "sent", ok |-> FALSE]}]
    /\ UNCHANGED <<todos, idCounter, queryCache, ret, held, issued, sinceClear,
                   resp, form>>

handleToggle(id) == sendMutation("PATCH", id)

handleDelete(id) == sendMutation("DELETE", id)

\* the server handles a list request of the page
serveList(r) ==
    /\ r.phase = "sent"
    /\ GET([status |-> r.filters.status, q |-> r.filters.query])
    /\ LET ok == resp'.status = 200
           list == IF ok THEN resp'.body.todos ELSE <<>>
       IN  page' = [page EXCEPT
                !.lists = (@ \ {r}) \cup
                            {[r EXCEPT !.phase = "answered", !.ok = ok,
                                       !.todos = list]},
                !.answer = IF r.latest THEN list ELSE @]
    /\ UNCHANGED form

\* fetchTodos after its awaits: setTodos(data.todos || data) when res.ok
receiveList(r) ==
    /\ r.phase = "answered"
    /\ page' = [page EXCEPT !.lists = @ \ {r},
                            !.todos = IF r.ok THEN r.todos ELSE @]
    /\ UNCHANGED <<todos, idCounter, queryCache, ret, held, issued, sinceClear,
                   resp, form>>

\* the server handles the PATCH (sent without a body) or DELETE of the page
serveMutation(m) ==
    /\ m.phase = "sent"
    /\ IF m.method = "PATCH"
       THEN PATCH(IdPath(m.id), [kind |-> "invalid"])
       ELSE DELETE(IdPath(m.id))
    /\ page' = [page EXCEPT !.mutations = (@ \ {m}) \cup
                    {[m EXCEPT !.phase = "answered", !.ok = (resp'.status = 200)]}]
    /\ UNCHANGED form

\* handleToggle and handleDelete after their await: fetchTodos() when res.ok
receiveMutation(m) ==
    /\ m.phase = "answered"
    /\ m.ok => Cardinality(page.lists) < MaxInFlight
    /\ page' = IF m.ok
               THEN fetchTodos([page EXCEPT !.mutations = @ \ {m}], m.filters)
               ELSE [page EXCEPT !.mutations = @ \ {m}]
    /\ UNCHANGED <<todos, idCounter, queryCache, ret, held, issued, sinceClear,
                   resp, form>>

\* handleInputChange('title', value)
handleInputChange(value) ==
    /\ ~form.rendered
    /\ form' = [form EXCEPT !.title = value]
    /\ UNCHANGED <<todos, idCounter, queryCache, ret, held, issued, sinceClear,
                   resp, page>>

\* validateForm finds no error in the title
titleIsValid(title) ==
    Trim(title) # <<>> /\ Len(Trim(title)) <= MAX_TITLE_LENGTH

\* handleSubmit up to its await.  isSubmitting is the value the handler's
\* render captured (form.rendered); setIsSubmitting(true) changes the state,
\* which the handler of the next render will see
handleSubmit ==
    /\ ~form.rendered
    /\ titleIsValid(form.title)
    /\ Len(form.posts) < MaxInFlight
    /\ idCounter + Len(form.posts) <= MaxId
    /\ form' = [form EXCEPT
                    !.isSubmitting = TRUE,
                    !.posts = Append(@, [title |-> Trim(form.title),
                                         phase |-> "sent", ok |-> FALSE,
                                         todo |-> <<>>])]
    /\ UNCHANGED <<todos, idCounter, queryCache, ret, held, issued, sinceClear,
                   resp, page>>

\* React renders the form again with the current state
renderForm ==
    /\ form.rendered # form.isSubmitting
    /\ form' = [form EXCEPT !.rendered = form.isSubmitting]
    /\ UNCHANGED <<todos, idCounter, queryCache, ret, held, issued, sinceClear,
                   resp, page>>

\* the server handles a POST of the form
servePost(i) ==
    /\ form.posts[i].phase = "sent"
    /\ POST([kind |-> "object",
             fields |-> [title |-> [str |-> form.posts[i].title],
                         description |-> [str |-> <<>>]]], "T1")
    /\ form' = [form EXCEPT
                    !.posts[i].phase = "answered",
                    !.posts[i].ok = (resp'.status = 201),
                    !.posts[i].todo = IF resp'.status = 201 THEN resp'.body
                                                            ELSE <<>>]
    /\ UNCHANGED page

\* handleSubmit after its awaits: on success the form is reset and
\* onCreated(todo), which is fetchTodos, is called with the new record; in
\* every case setIsSubmitting(false)
receivePost(i) ==
    /\ form.posts[i].phase = "answered"
    /\ form.posts[i].ok => Cardinality(page.lists) < MaxInFlight
    /\ form' = [form EXCEPT
                    !.posts = SubSeq(@, 1, i - 1) \o SubSeq(@, i + 1, Len(@)),
                    !.title = IF form.posts[i].ok THEN <<>> ELSE @,
                    !.isSubmitting = FALSE]
    /\ page' = IF form.posts[i].ok
               THEN fetchTodos(page, form.posts[i].todo)
               ELSE page
    /\ UNCHANGED <<todos, idCounter, queryCache, ret, held, issued, sinceClear,
                   resp>>

PageFilters ==
    {[status |-> "all", query |-> <<>>], [status |-> "completed", query |-> <<>>]}

FetchEffect == fetchEffect

ApplyFilter == \E f \in PageFilters : onFilter(f)

ClickToggle == \E i \in 1..Len(page.todos) : handleToggle(page.todos[i].id)

ClickDelete == \E i \in 1..Len(page.todos) : handleDelete(page.todos[i].id)

ServeList == \E r \in page.lists : serveList(r)

ReceiveList == \E r \in page.lists : receiveList(r)

ServeMutation == \E m \in page.mutations : serveMutation(m)

ReceiveMutation == \E m \in page.mutations : receiveMutation(m)

TypeTitle == \E value \in {<<>>, <<"A", " ">>} : handleInputChange(value)

Submit == handleSubmit

RenderForm == renderForm

ServePost == \E i \in 1..Len(form.posts) : servePost(i)

ReceivePost == \E i \in 1..Len(form.posts) : receivePost(i)

\* a record created by a request of another browser
PostElsewhere ==
    /\ idCounter <= MaxId
    /\ POST([kind |-> "object", fields |-> [title |-> [str |-> <<"A">>]]], "T1")
    /\ UNCHANGED <<page, form>>

NextPage ==
    \/ FetchEffect
    \/ ApplyFilter
    \/ ClickToggle
    \/ ClickDelete
    \/ ServeList
    \/ ReceiveList
    \/ ServeMutation
    \/ ReceiveMutation
    \/ PostElsewhere

SpecPage == Init /\ [][NextPage]_vars

NextForm ==
    \/ TypeTitle
    \/ Submit
    \/ RenderForm
    \/ ServePost
    \/ ReceivePost
    \/ ServeList
    \/ ReceiveList

SpecForm == Init /\ [][NextForm]_vars

----------------------------------------------------------------------------
(* Properties *)

IsGetTodos(r, f) ==
    r.op = "getTodos" /\ r.key = getCacheKey(WithDefaults(f))

CreatedOk(r) == r.op = "createTodo" /\ r.status = "ok"

HasId(list, n) == \E i \in 1..Len(list) : list[i].id = n

\* C1: every list getTodos returns, from the cache or recomputed, is the list
\* that filtering the current collection by the same (status, q) produces
QueryReflectsStore ==
    \A f \in Filters :
        IsGetTodos(ret, f) => ret.val = finalResults(todos, WithDefaults(f))

\* C1 witness: a non-empty result served from the cache (its key is the oldest
\* of two entries) for a store from which a record has been deleted
QueryReflectsStoreWitness ==
    /\ ret.op = "getTodos"
    /\ Len(queryCache) >= 2
    /\ ret.key = queryCache[1].key
    /\ ret.val # <<>>
    /\ Cardinality(sinceClear) > Len(todos)

\* C2: without clearAllTodos, the id a successful createTodo returns is greater
\* than every id returned before, whatever was deleted or changed in between
CreatedIdsIncrease ==
    [][CreatedOk(ret') => \A i \in issued : i < ret'.val.id]_vars

\* C2 witness: a second id has been returned after the first record was
\* deleted
CreatedIdsIncreaseWitness ==
    /\ CreatedOk(ret)
    /\ ret.val.id = 2
    /\ Len(todos) = 1

\* C3 as stated: an id once handed out is never handed out again, clearAllTodos
\* included
IdsNeverReused ==
    [][CreatedOk(ret') => ret'.val.id \notin issued]_vars

\* C3 amended: an id handed out since the last clearAllTodos (or since start)
\* is never handed out again before the next clearAllTodos, and is below the
\* counter
IdsNeverReusedSinceClear ==
    [][/\ CreatedOk(ret') => ret'.val.id \notin sinceClear
       /\ \A i \in sinceClear' : i < idCounter']_vars

\* C3 witness: a create that follows both a clearAllTodos and the deletion of
\* a record created after it
IdsNeverReusedSinceClearWitness ==
    /\ CreatedOk(ret)
    /\ \E i \in sinceClear : ~HasId(todos, i)
    /\ Len(todos) = 1
    /\ idCounter = 3

\* C4: getTodos for status "all" and empty text returns the collection itself:
\* every record in the store, none that was removed, in the store's order
AllQueryReturnsStore ==
    IsGetTodos(ret, [status |-> "all", q |-> <<>>]) => ret.val = todos

\* C4 witness: the "all" query answered with one record after another record
\* was removed
AllQueryReturnsStoreWitness ==
    /\ IsGetTodos(ret, [status |-> "all", q |-> <<>>])
    /\ Len(ret.val) = 1
    /\ ret.val[1].id = 2
    /\ sinceClear = {1, 2}

Mutated(r) ==
    \/ r.op \in {"createTodo", "updateTodo", "toggleTodo", "deleteTodo",
                 "clearAllTodos"} /\ r.status = "ok"
    \/ r.op \in {"bulkToggleTodos", "bulkDeleteTodos"} /\ r.val # <<>>

\* C5: right after a successful create, update, toggle, delete or clearAll, and
\* after a bulk operation that affected a record, the query cache is empty
CacheEmptyAfterMutation ==
    [][Mutated(ret') => queryCache' = <<>>]_vars

\* C5 witness: a bulk toggle that flipped a record has just returned
CacheEmptyAfterMutationWitness ==
    /\ ret.op = "bulkToggleTodos"
    /\ Len(ret.val) = 2
    /\ queryCache = <<>>

\* C6: a getTodos call that follows a getTodos call with the same arguments
\* returns the same list, and no getTodos call changes the collection or the
\* id counter
RepeatedQueryEqual ==
    [][ret'.op = "getTodos" =>
            /\ todos' = todos
            /\ idCounter' = idCounter
            /\ (ret.op = "getTodos" /\ ret.key = ret'.key => ret'.val = ret.val)]_vars

\* C6 witness: a query answered from a full set of cached keys with a
\* non-empty list
RepeatedQueryEqualWitness ==
    /\ ret.op = "getTodos"
    /\ Len(queryCache) = 3
    /\ held = queryCache[2].key
    /\ ret.val # <<>>

\* C7 as stated: the list a caller was given is not the cache's own array, so
\* whatever the caller does to it, every cached entry, which is what later
\* getTodos calls return, is still the list filtering the store produces
ReturnedListIsDefensiveCopy ==
    \A f \in Filters :
        LET k == getCacheKey(WithDefaults(f))
        IN  CacheHas(queryCache, k) =>
                CacheGet(queryCache, k) = finalResults(todos, WithDefaults(f))

\* a PATCH body that is an update request but not a well-formed one: it has a
\* field that is not allowed, a title that is no string, a completed that is no
\* boolean, or a title or description that is too long
IsMalformedUpdate(body) ==
    /\ body.kind = "object"
    /\ DOMAIN body.fields # {"toggle"}
    /\ \E key \in DOMAIN body.fields :
        LET value == body.fields[key]
        IN  \/ key \notin {"title", "description", "completed"}
            \/ key = "title" /\ ~IsString(value)
            \/ key = "title" /\ IsString(value) /\ Len(value.str) > MAX_TITLE_LENGTH
            \/ key = "description" /\ IsString(value)
                    /\ Len(value.str) > MAX_DESCRIPTION_LENGTH
            \/ key = "completed" /\ ~IsBoolean(value)

\* C8 as stated: a PATCH for an existing record whose body is malformed for an
\* update is answered with an error response, calls no store operation and
\* leaves the record as it was
MalformedPatchRejected ==
    [][\A id \in PathIds, body \in PatchBodies :
            /\ HasId(todos, Number(id))
            /\ IsMalformedUpdate(body)
            /\ PATCH(id, body)
            =>
                /\ resp'.action = "error"
                /\ UNCHANGED <<todos, idCounter, queryCache, ret>>]_vars

NotFound(r) ==
    \/ r.op \in {"updateTodo", "toggleTodo", "deleteTodo"} /\ r.status = "null"
    \/ r.op \in {"bulkToggleTodos", "bulkDeleteTodos"} /\ r.val = <<>>

\* C9: an id-keyed mutation whose id (or ids) match no record returns null (an
\* empty list for the bulk operations), and a call that returns so leaves the
\* collection, the id counter and the query cache as they were
NotFoundHasNoEffect ==
    [][/\ NotFound(ret') => UNCHANGED store
       /\ ret'.op = "updateTodo" =>
            \A id \in Ids, u \in UpdateArgs :
                ~HasId(todos, Number(id)) /\ updateTodo(id, u)
                    => ret' = ReturnedNull("updateTodo")
       /\ ret'.op = "toggleTodo" =>
            \A id \in Ids :
                ~HasId(todos, Number(id)) /\ toggleTodo(id)
                    => ret' = ReturnedNull("toggleTodo")
       /\ ret'.op = "deleteTodo" =>
            \A id \in Ids :
                ~HasId(todos, Number(id)) /\ deleteTodo(id)
                    => ret' = ReturnedNull("deleteTodo")
       /\ ret'.op = "bulkToggleTodos" =>
            \A ids \in IdLists :
                (\A i \in 1..Len(ids) : ~HasId(todos, Number(ids[i])))
                    /\ bulkToggleTodos(ids)
                    => ret' = Returned("bulkToggleTodos", NoKey, <<>>)
       /\ ret'.op = "bulkDeleteTodos" =>
            \A ids \in IdLists :
                (\A i \in 1..Len(ids) : ~HasId(todos, Number(ids[i])))
                    /\ bulkDeleteTodos(ids)
                    => ret' = Returned("bulkDeleteTodos", NoKey, <<>>)]_vars

\* C9 witness: deleteTodo has returned null while the store held a record and
\* the cache an entry
NotFoundHasNoEffectWitness ==
    /\ ret = ReturnedNull("deleteTodo")
    /\ todos # <<>>
    /\ queryCache # <<>>

IsBlank(s) == \A i \in 1..Len(s) : s[i] \in Whitespace

\* C10: createTodo with a title that is missing, empty or all whitespace throws,
\* and a createTodo that throws adds no record, takes no id and leaves the
\* cache alone
BlankCreateHasNoEffect ==
    [][/\ ret' = Threw("createTodo") => UNCHANGED store
       /\ ret'.op = "createTodo" =>
            \A a \in CreateArgs, now \in Timestamps :
                /\ "title" \notin DOMAIN a \/ IsBlank(a.title)
                /\ createTodo(a, now)
                => ret' = Threw("createTodo")]_vars

\* C10 witness: createTodo has thrown while the store held a record and the
\* cache an entry
BlankCreateHasNoEffectWitness ==
    /\ ret = Threw("createTodo")
    /\ todos # <<>>
    /\ queryCache # <<>>

\* ---- non-empty titles ----

\* C11: every record in the store has a title that is non-empty after
\* trimming, whatever successful and failed createTodo and updateTodo calls
\* came before.
TitlesNeverEmpty ==
    \A i \in 1..Len(todos) : Trim(todos[i].title) # <<>>

\* a record whose title was replaced by a successful update is in the store,
\* and the last call was an update refused for its blank title
TitlesNeverEmptyWitness ==
    /\ ret = Threw("updateTodo")
    /\ \E i \in 1..Len(todos) : todos[i].id = 1 /\ todos[i].title = <<"b">>
    /\ \E i \in 1..Len(todos) : todos[i].id = 2 /\ todos[i].title = <<"A">>

\* ---- refused update ----

\* C13: updateTodo on a record that exists, with a supplied title that is
\* empty or blank, throws; the collection (so every supplied field), the
\* counter and the cache are exactly as before the call.
BlankUpdateHasNoEffect ==
    [][ret'.op = "updateTodo" =>
          \A id \in Ids, u \in UpdateArgs :
              ( /\ HasId(todos, Number(id))
                /\ "title" \in DOMAIN u
                /\ IsBlank(u.title)
                /\ updateTodo(id, u) )
              => /\ ret' = Threw("updateTodo")
                 /\ todos' = todos
                 /\ idCounter' = idCounter
                 /\ queryCache' = queryCache]_vars

\* an update with a blank title and completed: true was refused on a store
\* whose records are all active, while the cache still holds a result
BlankUpdateHasNoEffectWitness ==
    /\ ret = Threw("updateTodo")
    /\ queryCache # <<>>
    /\ todos # <<>>
    /\ \A i \in 1..Len(todos) : ~todos[i].completed

\* ---- frame of a successful update ----

\* t is s without its leading and trailing whitespace
IsTrimOf(t, s) ==
    \E i \in 1..(Len(s) + 1), j \in 0..Len(s) :
        /\ t = SubSeq(s, i, j)
        /\ \A k \in 1..Len(s) : (k < i \/ k > j) => s[k] \in Whitespace
        /\ t # <<>> => t[1] \notin Whitespace /\ t[Len(t)] \notin Whitespace

\* the value a supplied field must have after the update
IsSupplied(field, stored, given) ==
    IF field = "title" THEN IsTrimOf(stored, given) ELSE stored = given

\* C12: a successful updateTodo(id, fields) leaves the record at its
\* position with its id and createdAt, gives each supplied field its new
\* value (the title trimmed), keeps each field that was not supplied, and
\* leaves every other record as it was.
UpdateChangesOnlySupplied ==
    [][(ret'.op = "updateTodo" /\ ret'.status = "ok") =>
          \A id \in Ids, u \in FieldUpdateArgs :
              updateTodo(id, u) =>
                  \E k \in 1..Len(todos) :
                      /\ todos[k].id = Number(id)
                      /\ Len(todos') = Len(todos)
                      /\ \A j \in 1..Len(todos) : j # k => todos'[j] = todos[j]
                      /\ todos'[k].id = todos[k].id
                      /\ todos'[k].createdAt = todos[k].createdAt
                      /\ \A f \in {"title", "description", "completed"} :
                            IF f \in DOMAIN u
                            THEN IsSupplied(f, todos'[k][f], u[f])
                            ELSE todos'[k][f] = todos[k][f]
                      /\ ret'.val = todos'[k]]_vars

\* the first of two records that differ in every field was given a new title
\* (of an update that supplied it with leading whitespace) and nothing else
UpdateChangesOnlySuppliedWitness ==
    /\ ret.op = "updateTodo" /\ ret.status = "ok"
    /\ Len(todos) = 2
    /\ ret.val = todos[1]
    /\ todos[1] = [id |-> 1, title |-> <<"A">>, description |-> <<"a">>,
                   completed |-> TRUE, createdAt |-> "T2"]
    /\ todos[2] = [id |-> 2, title |-> <<"A">>, description |-> <<>>,
                   completed |-> FALSE, createdAt |-> "T1"]

\* ---- toggle ----

\* C14: a toggleTodo(id) that finds the record negates its completed flag and
\* changes nothing else in the collection; a second toggleTodo of the same
\* record right after it returns the record with the completed flag it had
\* before the first.
ToggleTwiceRestores ==
    [][(ret'.op = "toggleTodo" /\ ret'.status = "ok") =>
          \E k \in 1..Len(todos) :
              /\ ret'.val = todos'[k]
              /\ Len(todos') = Len(todos)
              /\ \A j \in 1..Len(todos) : j # k => todos'[j] = todos[j]
              /\ todos'[k].completed = ~todos[k].completed
              /\ \A f \in {"id", "title", "description", "createdAt"} :
                    todos'[k][f] = todos[k][f]
              /\ ( /\ ret.op = "toggleTodo"
                   /\ ret.status = "ok"
                   /\ ret.val.id = todos[k].id )
                 => /\ ret.val = todos[k]
                    /\ todos'[k].completed = ~ret.val.completed]_vars

\* the second record, completed before, has just been toggled active: the
\* first toggle of a pair on a store of two records
ToggleTwiceRestoresWitness ==
    /\ ret.op = "toggleTodo" /\ ret.status = "ok"
    /\ Len(todos) = 2
    /\ ret.val = todos[2]
    /\ ~todos[2].completed
    /\ todos[1].completed
    /\ todos[1].createdAt # todos[2].createdAt

\* ---- frame of a successful create ----

\* C15: a successful createTodo appends exactly one record at the end, whose id
\* is the counter before the call, whose completed is false and whose title is
\* the supplied title trimmed; the counter grows by one and the records that
\* were there keep their values and positions.
CreateAppendsOne ==
    [][CreatedOk(ret') =>
          /\ Len(todos') = Len(todos) + 1
          /\ \A j \in 1..Len(todos) : todos'[j] = todos[j]
          /\ todos'[Len(todos')] = ret'.val
          /\ ret'.val.id = idCounter
          /\ ret'.val.completed = FALSE
          /\ idCounter' = idCounter + 1
          /\ \A a \in FieldCreateArgs, now \in CreationTimes :
                createTodo(a, now) =>
                    /\ IsTrimOf(ret'.val.title, a.title)
                    /\ ret'.val.title # <<>>
                    /\ ret'.val.createdAt = now]_vars

\* a record with a trimmed title was created behind a completed record that
\* was created later in time
CreateAppendsOneWitness ==
    /\ CreatedOk(ret)
    /\ Len(todos) = 2
    /\ todos[1].completed /\ todos[1].createdAt = "T2"
    /\ todos[2] = [id |-> 2, title |-> <<"b">>, description |-> <<"a">>,
                   completed |-> FALSE, createdAt |-> "T1"]

\* ---- bulk toggle ----

\* C17: bulkToggleTodos(ids) negates completed on exactly the records whose id
\* occurs in ids, once per record however often the id occurs, leaves every
\* other record and field unchanged, ignores ids that match no record, and
\* returns exactly the negated records in collection order.
BulkToggleFlipsListedOnce ==
    [][ret'.op = "bulkToggleTodos" =>
          \A ids \in IdLists :
              bulkToggleTodos(ids) =>
                  LET listed(n) == \E k \in 1..Len(ids) : Number(ids[k]) = n
                      hit == {i \in 1..Len(todos) : listed(todos[i].id)}
                  IN  /\ Len(todos') = Len(todos)
                      /\ \A i \in 1..Len(todos) :
                            /\ todos'[i].completed =
                                   IF i \in hit THEN ~todos[i].completed
                                                ELSE todos[i].completed
                            /\ \A f \in {"id", "title", "description", "createdAt"} :
                                  todos'[i][f] = todos[i][f]
                      /\ Len(ret'.val) = Cardinality(hit)
                      /\ \A i \in hit :
                            \E m \in 1..Len(ret'.val) : ret'.val[m] = todos'[i]
                      /\ \A m, n \in 1..Len(ret'.val) :
                            m < n => ret'.val[m].id < ret'.val[n].id
                      /\ idCounter' = idCounter]_vars

\* a call whose list named one record (twice, or beside an unknown id) negated
\* that record and left the other one of the store alone
BulkToggleFlipsListedOnceWitness ==
    /\ ret.op = "bulkToggleTodos"
    /\ Len(ret.val) = 1
    /\ Len(todos) = 2
    /\ ret.val[1].completed
    /\ \E i \in 1..2 : todos[i] = ret.val[1]
    /\ \E i \in 1..2 : ~todos[i].completed

\* ---- deletion keeps the order ----

\* the records of list other than those at the positions in gone, in order
Without(list, gone) ==
    LET kept(i) == Cardinality({j \in 1..i : j \notin gone})
    IN  /\ Len(todos') = Len(list) - Cardinality(gone)
        /\ \A i \in 1..Len(list) : i \notin gone => todos'[kept(i)] = list[i]

\* C16: the collection is in insertion order (ids grow along it) in every
\* state; a deleteTodo(id) that finds the record removes exactly that record
\* and returns it, and the other records keep their relative order and their
\* field values.
DeleteKeepsOrder ==
    [][ /\ \A i, j \in 1..Len(todos') : i < j => todos'[i].id < todos'[j].id
        /\ (ret'.op = "deleteTodo" /\ ret'.status = "ok") =>
              \A id \in OrderIds :
                  deleteTodo(id) =>
                      \E k \in 1..Len(todos) :
                          /\ todos[k].id = Number(id)
                          /\ ret'.val = todos[k]
                          /\ Without(todos, {k})
                          /\ idCounter' = idCounter ]_vars

\* the middle one of three records was deleted; the two that remain differ in
\* their completed flag
DeleteKeepsOrderWitness ==
    /\ ret.op = "deleteTodo" /\ ret.status = "ok"
    /\ ret.val.id = 2
    /\ Len(todos) = 2
    /\ todos[1].id = 1 /\ todos[1].completed
    /\ todos[2].id = 3 /\ ~todos[2].completed

\* C18: bulkDeleteTodos(ids) removes exactly the records whose id is in ids and
\* returns them; the records that remain keep their relative order and their
\* field values, and the id counter is unchanged.
BulkDeleteRemovesListed ==
    [][ret'.op = "bulkDeleteTodos" =>
          \A ids \in OrderIdLists :
              bulkDeleteTodos(ids) =>
                  LET listed(n) == \E k \in 1..Len(ids) : Number(ids[k]) = n
                      hit == {i \in 1..Len(todos) : listed(todos[i].id)}
                  IN  /\ Without(todos, hit)
                      /\ Len(ret'.val) = Cardinality(hit)
                      /\ \A i \in hit :
                            \E m \in 1..Len(ret'.val) : ret'.val[m] = todos[i]
                      /\ idCounter' = idCounter]_vars

\* one call removed one record of three and left the first and the last, which
\* differ in their completed flag, in their order
BulkDeleteRemovesListedWitness ==
    /\ ret.op = "bulkDeleteTodos"
    /\ Len(ret.val) = 1
    /\ ret.val[1].id = 2
    /\ Len(todos) = 2
    /\ todos[1].id = 1 /\ ~todos[1].completed
    /\ todos[2].id = 3 /\ todos[2].completed
    /\ idCounter = 4

\* ---- the bounded cache ----

\* C19: the cache holds at most CACHE_SIZE_LIMIT entries, under distinct keys,
\* in every reachable state.
CacheWithinLimit ==
    /\ Len(queryCache) <= CACHE_SIZE_LIMIT
    /\ \A i, j \in 1..Len(queryCache) :
          queryCache[i].key = queryCache[j].key => i = j

\* the cache is full after a miss that evicted an entry: the query for the
\* empty text, inserted first, is gone
CacheWithinLimitWitness ==
    /\ Len(queryCache) = CACHE_SIZE_LIMIT
    /\ ret.op = "getTodos"
    /\ ret.key = queryCache[Len(queryCache)].key
    /\ ~IsCached(0)
    /\ todos # <<>>

\* C20: a query that misses while the cache is full evicts exactly the entry
\* inserted earliest and puts its own entry last; a miss below the limit only
\* adds its entry last; a hit leaves the entries and their order as they are.
EvictionIsFifo ==
    [][ret'.op = "getTodos" =>
          IF CacheHas(queryCache, ret'.key)
          THEN queryCache' = queryCache
          ELSE LET n == Len(queryCache)
                   evicted == IF n = CACHE_SIZE_LIMIT THEN 1 ELSE 0
               IN  /\ Len(queryCache') = n + 1 - evicted
                   /\ \A i \in (1 + evicted)..n :
                         queryCache'[i - evicted] = queryCache[i]
                   /\ queryCache'[Len(queryCache')].key = ret'.key
                   /\ queryCache'[Len(queryCache')].val = ret'.val]_vars

\* after evictions, a hit on the oldest entry of the full cache: it is still the
\* first in line
EvictionIsFifoWitness ==
    /\ Len(queryCache) = CACHE_SIZE_LIMIT
    /\ ret.op = "getTodos"
    /\ ret.key = queryCache[1].key
    /\ held = queryCache[1].key
    /\ ~IsCached(0)
    /\ IsCached(1)

\* ---- statistics ----

\* C21: getTodoStats returns total = the number of records, completed = the
\* number of records whose completed is true and active = total - completed,
\* and it changes neither the collection, nor the counter, nor the cache.
StatsCountRecords ==
    [][ret'.op = "getTodoStats" =>
          /\ ret'.val.total = Len(todos)
          /\ ret'.val.completed =
                 Cardinality({i \in 1..Len(todos) : todos[i].completed})
          /\ ret'.val.active = ret'.val.total - ret'.val.completed
          /\ todos' = todos
          /\ idCounter' = idCounter
          /\ queryCache' = queryCache]_vars

\* the statistics of a store with two completed records and an active one,
\* taken while the cache holds a result
StatsCountRecordsWitness ==
    /\ ret.op = "getTodoStats"
    /\ ret.val = [total |-> 3, active |-> 1, completed |-> 2]
    /\ Len(todos) = 3
    /\ queryCache # <<>>

\* ---- clearing the store ----

\* C22: clearAllTodos returns the number of records the collection held before
\* the call; after it the collection is empty, the id counter is 1 and the
\* cache is empty.
ClearAllResets ==
    [][ret'.op = "clearAllTodos" =>
          /\ ret'.val = Len(todos)
          /\ todos' = <<>>
          /\ idCounter' = 1
          /\ queryCache' = <<>>]_vars

\* a store that had handed out three ids and still held two records has been
\* cleared
ClearAllResetsWitness ==
    /\ ret.op = "clearAllTodos"
    /\ ret.val = 2
    /\ issued = {1, 2, 3}
    /\ todos = <<>>
    /\ idCounter = 1
    /\ queryCache = <<>>

\* ---- filtering ----

\* the letters a and b are the same letter in either case
SameLetter(c, d) ==
    c = d \/ {c, d} = {"A", "a"} \/ {c, d} = {"B", "b"}

\* text occurs in s at some position, case ignored
ContainsText(s, text) ==
    \E k \in 0..(Len(s) - Len(text)) :
        \A m \in 1..Len(text) : SameLetter(s[k + m], text[m])

\* the record passes the status filter and, for a non-empty text, the search
Passes(todo, f) ==
    /\ \/ f.status = "all"
       \/ f.status = "active" /\ todo.completed = FALSE
       \/ f.status = "completed" /\ todo.completed = TRUE
    /\ \/ f.q = <<>>
       \/ ContainsText(todo.title, f.q)
       \/ ContainsText(todo.description, f.q)

\* C23: the result getTodos computes on a cache miss is exactly the
\* subsequence of the collection, in collection order, of the records that
\* pass the status filter and, when the text is not empty, whose title or
\* description contains the text, case ignored.
RecomputedResultIsFiltered ==
    [][(ret'.op = "getTodos" /\ ~CacheHas(queryCache, ret'.key)) =>
          \A f \in SearchFilters :
              getTodos(f) =>
                  LET pass == {i \in 1..Len(todos) : Passes(todos[i], f)}
                      rank(i) == Cardinality({j \in pass : j <= i})
                  IN  /\ Len(ret'.val) = Cardinality(pass)
                      /\ \A i \in pass : ret'.val[rank(i)] = todos[i]]_vars

\* a search for "a" among the active records of a store of two found both, in
\* their order: one by the "A" of its title, one by its description alone
RecomputedResultIsFilteredWitness ==
    /\ ret.op = "getTodos"
    /\ ret.key = getCacheKey([status |-> "active", q |-> <<"a">>])
    /\ Len(todos) = 2
    /\ ret.val = todos
    /\ todos[1].title = <<"A", "b">>
    /\ todos[2].title = <<"b">>

\* ---- length limits ----

\* C24: whatever POST, PATCH and PUT requests the route handlers have handled,
\* every record in the store has a title of at most 200 characters and a
\* description of at most 1000 characters.
LengthsWithinLimits ==
    \A i \in 1..Len(todos) :
        /\ Len(todos[i].title) <= 200
        /\ Len(todos[i].description) <= 1000

\* a PUT has just replaced a record with a title of exactly 200 and a
\* description of exactly 1000 characters
LengthsWithinLimitsWitness ==
    /\ resp.status = 200
    /\ resp.action = "replaced"
    /\ Len(resp.body.title) = 200
    /\ Len(resp.body.description) = 1000
    /\ \E i \in 1..Len(todos) : todos[i] = resp.body

\* ---- the page shows the latest response ----

\* C25: once no list request of the page is in flight, the list the page
\* displays is the response to the list request it sent last; a response to an
\* older request that arrives late does not replace it.
DisplayedIsLatestResponse ==
    (page.asked /\ page.lists = {}) => page.todos = page.answer

\* ---- the form sends one request at a time ----

\* C26: at most one POST of the form is in flight at any time; a submit event
\* that arrives while a submission is in progress, even before the form has
\* been rendered again, sends no request.
OnePostInFlight ==
    Len(form.posts) <= 1

====
